---- MODULE Spec2Model ----
(***************************************************************************)
(* Position ledger (filter_address.py, TradeAnalyzer) and whale signal     *)
(* detector (main.py, analyze_whale_activity).                             *)
(*                                                                         *)
(* Python floats are IEEE-754 binary64.  They are modelled bit-exactly:    *)
(* a finite float is a sign, a 53-bit significand and a binary exponent,   *)
(* and every arithmetic operation rounds to nearest, ties to even.  TLC    *)
(* integers are 32 bits wide, so significands are held as little-endian    *)
(* sequences of base-2^15 limbs.  Infinities, NaN, subnormals and the sign *)
(* of zero are outside the model: the inputs are short decimal strings and *)
(* the values stay far from the exponent limits.                           *)
(***************************************************************************)
EXTENDS Integers, Sequences, FiniteSets, TLC

\* ------------------------------------------------------------------------
\* Unbounded naturals as limb sequences (least significant limb first,
\* no zero limb at the top; the empty sequence is 0).
\* ------------------------------------------------------------------------
\* a limb product and a carry fit a 32-bit integer
LimbBase == 128 * 256

RECURSIVE Pow2From(_)
Pow2From(k) == IF k = 0 THEN 1 ELSE 2 * Pow2From(k - 1)

\* the powers of two a 32-bit integer holds, computed once
Powers == [k \in 0..30 |-> Pow2From(k)]

Pow2(k) == Powers[k]

\* the number of bits of v >= 0
IntBitLen(v) == Cardinality({k \in DOMAIN Powers : Powers[k] <= v})

LimbBits == IntBitLen(LimbBase - 1)

RECURSIVE BTrim(_)
BTrim(a) ==
    IF a = <<>> THEN <<>>
    ELSE IF a[Len(a)] = 0 THEN BTrim(SubSeq(a, 1, Len(a) - 1))
    ELSE a

RECURSIVE BFromInt(_)
BFromInt(v) ==
    IF v = 0 THEN <<>> ELSE <<v % LimbBase>> \o BFromInt(v \div LimbBase)

Limb(a, i) == IF i <= Len(a) THEN a[i] ELSE 0

RECURSIVE BAddFrom(_, _, _, _)
BAddFrom(a, b, i, carry) ==
    IF i > Len(a) /\ i > Len(b)
    THEN IF carry = 0 THEN <<>> ELSE <<carry>>
    ELSE LET t == Limb(a, i) + Limb(b, i) + carry
         IN  <<t % LimbBase>> \o BAddFrom(a, b, i + 1, t \div LimbBase)

BAdd(a, b) == BAddFrom(a, b, 1, 0)

\* a - b for a >= b
RECURSIVE BSubFrom(_, _, _, _)
BSubFrom(a, b, i, borrow) ==
    IF i > Len(a) THEN <<>>
    ELSE LET t == Limb(a, i) - Limb(b, i) - borrow
         IN  IF t < 0
             THEN <<t + LimbBase>> \o BSubFrom(a, b, i + 1, 1)
             ELSE <<t>> \o BSubFrom(a, b, i + 1, 0)

BSub(a, b) == BTrim(BSubFrom(a, b, 1, 0))

\* -1, 0, 1 as a < b, a = b, a > b
RECURSIVE BCmpFrom(_, _, _)
BCmpFrom(a, b, i) ==
    IF i = 0 THEN 0
    ELSE IF a[i] < b[i] THEN -1
    ELSE IF a[i] > b[i] THEN 1
    ELSE BCmpFrom(a, b, i - 1)

BCmp(a, b) ==
    IF Len(a) < Len(b) THEN -1
    ELSE IF Len(a) > Len(b) THEN 1
    ELSE BCmpFrom(a, b, Len(a))

\* a * d for a single limb d
RECURSIVE BMulSmallFrom(_, _, _, _)
BMulSmallFrom(a, d, i, carry) ==
    IF i > Len(a)
    THEN IF carry = 0 THEN <<>> ELSE <<carry>>
    ELSE LET t == a[i] * d + carry
         IN  <<t % LimbBase>> \o BMulSmallFrom(a, d, i + 1, t \div LimbBase)

BMulSmall(a, d) == IF d = 0 THEN <<>> ELSE BMulSmallFrom(a, d, 1, 0)

RECURSIVE BMulFrom(_, _, _)
BMulFrom(a, b, j) ==
    IF j > Len(b) THEN <<>>
    ELSE LET rest == BMulFrom(a, b, j + 1)
         IN  BAdd(BMulSmall(a, b[j]),
                  IF rest = <<>> THEN <<>> ELSE <<0>> \o rest)

BMul(a, b) == IF a = <<>> \/ b = <<>> THEN <<>> ELSE BMulFrom(a, b, 1)

Zeros(q) == [i \in 1..q |-> 0]

\* a * 2^k
BShl(a, k) ==
    IF a = <<>> THEN <<>>
    ELSE Zeros(k \div LimbBits) \o BMulSmall(a, Pow2(k % LimbBits))

\* floor(a / d) for a single limb d > 0, from the top limb down
RECURSIVE BDivSmallFrom(_, _, _, _)
BDivSmallFrom(a, d, i, rem) ==
    IF i = 0 THEN <<>>
    ELSE LET t == rem * LimbBase + a[i]
         IN  BDivSmallFrom(a, d, i - 1, t % d) \o <<t \div d>>

BDivSmall(a, d) == BTrim(BDivSmallFrom(a, d, Len(a), 0))

\* floor(a / 2^k)
BShr(a, k) ==
    IF k \div LimbBits >= Len(a) THEN <<>>
    ELSE BDivSmall(SubSeq(a, k \div LimbBits + 1, Len(a)), Pow2(k % LimbBits))

BBitLen(a) ==
    IF a = <<>> THEN 0 ELSE LimbBits * (Len(a) - 1) + IntBitLen(a[Len(a)])

BIsOdd(a) == a # <<>> /\ a[1] % 2 = 1

\* One digit of the schoolbook long division: the largest q with q*d <= r,
\* found from the estimate built on the top limbs (d has its top bit set,
\* so the estimate is at most two too large).
RECURSIVE BDigitFix(_, _, _)
BDigitFix(r, d, q) ==
    IF BCmp(BMulSmall(d, q), r) <= 0 THEN q ELSE BDigitFix(r, d, q - 1)

BDigitFrom(r, d, est) ==
    BDigitFix(r, d, IF est >= LimbBase THEN LimbBase - 1 ELSE est)

BDigit(r, d) ==
    IF BCmp(r, d) < 0 THEN 0
    ELSE BDigitFrom(r, d,
            (Limb(r, Len(d) + 1) * LimbBase + Limb(r, Len(d))) \div d[Len(d)])

\* <<quotient, remainder>> of the limbs i and above of a by d, d normalised
\* (top bit of top limb set): schoolbook long division, one limb of a
\* brought down at a time from the top.  The top Len(d) - 1 limbs of a are
\* below d and start as the remainder.
BDivModPut(quot, r, d, q) == << <<q>> \o quot, BSub(r, BMulSmall(d, q)) >>

BDivModDigit(quot, r, d) == BDivModPut(quot, r, d, BDigit(r, d))

BDivModStep(above, limb, d) ==
    IF above[2] = <<>> /\ limb = 0 THEN << <<0>> \o above[1], <<>> >>
    ELSE BDivModDigit(above[1], <<limb>> \o above[2], d)

RECURSIVE BDivModFrom(_, _, _)
BDivModFrom(a, d, i) ==
    IF i > Len(a) THEN << <<>>, <<>> >>
    ELSE IF i > Len(a) - Len(d) + 1 THEN << <<>>, BTrim(SubSeq(a, i, Len(a))) >>
    ELSE BDivModStep(BDivModFrom(a, d, i + 1), a[i], d)

BDivModAll(a, d) == BDivModFrom(a, d, 1)

BQuotSticky(qr) ==
    IF qr[2] = <<>> THEN <<BTrim(qr[1]), FALSE>> ELSE <<BTrim(qr[1]), TRUE>>

\* the shift that sets the top bit of the top limb of b
BNormShift(b) == LimbBits - IntBitLen(b[Len(b)])

\* <<floor(a / b), a mod b # 0>> for b > 0
BDivSticky(a, b) ==
    BQuotSticky(BDivModAll(BShl(a, BNormShift(b)), BShl(b, BNormShift(b))))

\* ------------------------------------------------------------------------
\* binary64 values: (-1)^s * m * 2^e with m = 0 (and s = 0, e = 0) or
\* 2^52 <= m < 2^53, so that equal numbers are equal records.
\* ------------------------------------------------------------------------
Precision == 53

FZero == [s |-> 0, m |-> <<>>, e |-> 0]

\* q or q + 1 as the significand; q + 1 = 2^53 moves to the next exponent
FRoundCarry(s, r, e) ==
    IF BBitLen(r) > Precision
    THEN [s |-> s, m |-> BShr(r, 1), e |-> e + 1]
    ELSE [s |-> s, m |-> r, e |-> e]

\* half: the dropped bits against one half -1, 0, 1; ties go to even
FRoundUp(half, sticky, q) ==
    half > 0 \/ (half = 0 /\ (sticky \/ BIsOdd(q)))

FRoundTo(s, q, e, up) ==
    IF up THEN FRoundCarry(s, BAdd(q, <<1>>), e) ELSE [s |-> s, m |-> q, e |-> e]

\* q: the top 53 bits of big, k bits dropped
FRoundCut(s, big, e, sticky, k, q) ==
    FRoundTo(s, q, e + k,
             FRoundUp(BCmp(BSub(big, BShl(q, k)), BShl(<<1>>, k - 1)), sticky, q))

FRoundLen(s, big, e, sticky, len) ==
    IF len = 0 THEN FZero
    ELSE IF len <= Precision
    THEN [s |-> s, m |-> BShl(big, Precision - len), e |-> e - (Precision - len)]
    ELSE FRoundCut(s, big, e, sticky, len - Precision, BShr(big, len - Precision))

\* the float nearest to (-1)^s * (big + f) * 2^e, ties to even, where
\* 0 <= f < 1 and sticky tells f # 0 (then big has more than 54 bits)
FRound(s, big, e, sticky) == FRoundLen(s, big, e, sticky, BBitLen(big))

FromInt(v) ==
    IF v < 0 THEN FRound(1, BFromInt(0 - v), 0, FALSE)
    ELSE FRound(0, BFromInt(v), 0, FALSE)

FNeg(x) == IF x.m = <<>> THEN x ELSE [x EXCEPT !.s = 1 - x.s]

FMul(x, y) ==
    IF x.m = <<>> \/ y.m = <<>> THEN FZero
    ELSE FRound((x.s + y.s) % 2, BMul(x.m, y.m), x.e + y.e, FALSE)

FRoundQuot(s, qs, e) ==
    IF qs[2] THEN FRound(s, qs[1], e, TRUE) ELSE FRound(s, qs[1], e, FALSE)

\* y # 0
FDiv(x, y) ==
    IF x.m = <<>> THEN FZero
    ELSE FRoundQuot((x.s + y.s) % 2,
                    BDivSticky(BShl(x.m, Precision + 3), y.m),
                    x.e - y.e - (Precision + 3))

\* significands a, b on the common exponent e, c their comparison
FExactSigned(sa, a, sb, b, e, c) ==
    IF sa = sb THEN [s |-> sa, m |-> BAdd(a, b), e |-> e]
    ELSE IF c = 0 THEN FZero
    ELSE IF c > 0 THEN [s |-> sa, m |-> BSub(a, b), e |-> e]
    ELSE [s |-> sb, m |-> BSub(b, a), e |-> e]

FExactAligned(sa, a, sb, b, e) == FExactSigned(sa, a, sb, b, e, BCmp(a, b))

FExactOn(x, y, e) ==
    FExactAligned(x.s, BShl(x.m, x.e - e), y.s, BShl(y.m, y.e - e), e)

\* the exact sum as [s, m, e], m not normalised
FExactAdd(x, y) ==
    IF x.m = <<>> THEN y
    ELSE IF y.m = <<>> THEN x
    ELSE FExactOn(x, y, IF x.e < y.e THEN x.e ELSE y.e)

\* exact cancellation gives +0.0
FRoundExact(t) == IF t.m = <<>> THEN FZero ELSE FRound(t.s, t.m, t.e, FALSE)

FAdd(x, y) ==
    IF x.m = <<>> THEN y
    ELSE IF y.m = <<>> THEN x
    ELSE FRoundExact(FExactAdd(x, y))

FSub(x, y) == FAdd(x, FNeg(y))

\* -1, 0, 1 as x < 0, x = 0, x > 0
FSign(x) == IF x.m = <<>> THEN 0 ELSE IF x.s = 1 THEN -1 ELSE 1

FLt(x, y) == FSign(FExactAdd(x, FNeg(y))) < 0
FGt(x, y) == FLt(y, x)
FGe(x, y) == ~FLt(x, y)

\* Python's min(a, b): b when b < a, else a
FMin(a, b) == IF FLt(b, a) THEN b ELSE a

\* ------------------------------------------------------------------------
\* Position ledger: TradeAnalyzer.calculate_pnl_by_coin and
\* TradeAnalyzer.calculate_winrate (filter_address.py).
\* ------------------------------------------------------------------------
MaxFills == 3

\* dict.get of a key the fill does not carry
Absent == "<absent>"

Coins == {"BTC", "ETH"}
Prices == {"10", "12", "5"}
Sizes == {"10", "15", "5", "0.1"}

\* the decimal literals of the feeds, in tenths
Tenths(str) ==
    CASE str = "0" -> 0
      [] str = "0.1" -> 1
      [] str = "2" -> 20
      [] str = "5" -> 50
      [] str = "10" -> 100
      [] str = "12" -> 120
      [] str = "15" -> 150
      [] str = "50000" -> 500000
      [] str = "60000" -> 600000
      [] str = "65000" -> 650000
      [] str = "99999" -> 999990
      [] str = "100000" -> 1000000
      [] str = "150000" -> 1500000
      [] str = "-100000" -> 0 - 1000000

Numerals ==
    {"0", "0.1", "2", "5", "10", "12", "15", "50000", "60000", "65000",
     "99999", "100000", "150000", "-100000"}

IsNumeric(str) == str \in Numerals

\* float(str) of a decimal literal: the binary64 nearest to its value,
\* tabulated once as <<literal, float>> pairs
Parsed == { <<str, FDiv(FromInt(Tenths(str)), FromInt(10))>> : str \in Numerals }

ParseFloat(str) == (CHOOSE p \in Parsed : p[1] = str)[2]

\* float(trade.get(key, 0)): 0.0 for an absent key; not defined (the call
\* raises ValueError) for a string that is not a number
FieldNumeric(v) == v = Absent \/ IsNumeric(v)
FieldFloat(v) == IF v = Absent THEN FZero ELSE ParseFloat(v)

WellFormed ==
    [coin : {"BTC"}, side : {"B", "A"}, px : Prices, sz : Sizes]
    \cup [coin : {"ETH"}, side : {"B", "A"}, px : {"10", "12"}, sz : {"10"}]

Malformed ==
    { [coin |-> Absent, side |-> "B", px |-> "10", sz |-> "10"],
      [coin |-> "BTC", side |-> Absent, px |-> "10", sz |-> "10"],
      [coin |-> "BTC", side |-> "B", px |-> Absent, sz |-> "10"],
      [coin |-> "BTC", side |-> "B", px |-> "10", sz |-> Absent],
      [coin |-> "BTC", side |-> "B", px |-> "abc", sz |-> "10"],
      [coin |-> "BTC", side |-> "A", px |-> "10", sz |-> "abc"] }

TradeInputs == WellFormed \cup Malformed

NoTrade == [coin |-> Absent, side |-> Absent, px |-> Absent, sz |-> Absent]

\* the defaultdict's factory
NewPosition ==
    [position |-> FZero, total_cost |-> FZero, realized_pnl |-> FZero,
     trades_count |-> 0, winning_trades |-> 0, losing_trades |-> 0]

NoReport == [status |-> "none"]

VARIABLES
    pc,         \* where the replay stands: loop, body, returned, raised, done
    n,          \* fills of the batch taken so far
    trade,      \* the loop variable
    positions,  \* coin -> PositionState, for the coins seen
    report,     \* what calculate_winrate returned
    trades_tbl,     \* table trades: tid -> row
    transfers_tbl,  \* table transfers: hash -> row
    signal          \* what analyze_whale_activity returned

ledgerVars == <<pc, n, trade, positions, report>>
storeVars == <<trades_tbl, transfers_tbl, signal>>
vars == <<pc, n, trade, positions, report, trades_tbl, transfers_tbl, signal>>

NoSignal == [branch |-> "none"]

Get(coin) == IF coin \in DOMAIN positions THEN positions[coin] ELSE NewPosition

Put(coin, pos) ==
    [c \in DOMAIN positions \cup {coin} |-> IF c = coin THEN pos ELSE positions[c]]

\* side == 'B'
Buy(pos, px, sz) ==
    [pos EXCEPT !.total_cost = FAdd(pos.total_cost, FMul(px, sz)),
                !.position = FAdd(pos.position, sz)]

AvgCost(pos) ==
    IF FSign(pos.position) > 0 THEN FDiv(pos.total_cost, pos.position) ELSE FZero

\* a sell that takes the whole order as matched
MatchedWholeSell(pos, sz) == sz

Matched(pos, sz) == FMin(sz, pos.position)

Pnl(pos, px, sz) == FMul(FSub(px, AvgCost(pos)), Matched(pos, sz))

\* a break-even sell counted as a win
WonOrEven(pnl) == FSign(pnl) >= 0

Won(pnl) == FSign(pnl) > 0

Lost(pnl) == FSign(pnl) < 0

\* side == 'A'
Sell(pos, px, sz) ==
    IF FSign(pos.position) > 0
    THEN LET pnl  == Pnl(pos, px, sz)
             cost == FSub(pos.total_cost, FMul(AvgCost(pos), Matched(pos, sz)))
             left == FSub(pos.position, sz)
         IN  [pos EXCEPT
                !.realized_pnl = FAdd(pos.realized_pnl, pnl),
                !.winning_trades = IF Won(pnl) THEN @ + 1 ELSE @,
                !.losing_trades = IF ~Won(pnl) /\ Lost(pnl) THEN @ + 1 ELSE @,
                !.total_cost = IF FSign(left) < 0 THEN FZero ELSE cost,
                !.position = IF FSign(left) < 0 THEN FZero ELSE left]
    ELSE pos

Counted(pos) == [pos EXCEPT !.trades_count = @ + 1]

\* the count moved into the branches that change the position
ApplyCountMatched(pos, side, px, sz) ==
    IF side = "B" THEN Buy(Counted(pos), px, sz)
    ELSE IF side = "A"
    THEN IF FSign(pos.position) > 0 THEN Sell(Counted(pos), px, sz) ELSE pos
    ELSE Counted(pos)

Apply(pos, side, px, sz) ==
    IF side = "B" THEN Buy(Counted(pos), px, sz)
    ELSE IF side = "A" THEN Sell(Counted(pos), px, sz)
    ELSE Counted(pos)

Falsy(v) == v = Absent \/ v = ""

InitLedger ==
    /\ pc = "loop"
    /\ n = 0
    /\ trade = NoTrade
    /\ positions = <<>>
    /\ report = NoReport
    /\ trades_tbl = <<>>
    /\ transfers_tbl = <<>>
    /\ signal = NoSignal

\* for trade in trades
NextTrade(t) ==
    /\ pc = "loop"
    /\ n < MaxFills
    /\ trade' = t
    /\ n' = n + 1
    /\ pc' = "body"
    /\ UNCHANGED <<positions, report>>
    /\ UNCHANGED storeVars

\* the loop body: the float() calls raise out of the function on a string
\* that is not a number, before the fill is looked at
ProcessFill ==
    /\ pc = "body"
    /\ IF ~(FieldNumeric(trade.px) /\ FieldNumeric(trade.sz))
       THEN pc' = "raised" /\ UNCHANGED positions
       ELSE /\ pc' = "loop"
            /\ IF Falsy(trade.coin) \/ Falsy(trade.side)
               THEN UNCHANGED positions
               ELSE positions' =
                      Put(trade.coin,
                          Apply(Get(trade.coin), trade.side,
                                FieldFloat(trade.px), FieldFloat(trade.sz)))
    /\ UNCHANGED <<n, trade, report>>
    /\ UNCHANGED storeVars

\* return dict(positions)
ReturnPositions ==
    /\ pc = "loop"
    /\ pc' = "returned"
    /\ UNCHANGED <<n, trade, positions, report>>
    /\ UNCHANGED storeVars

ZeroReport ==
    [status |-> "ok", overall_win_rate |-> FZero, total_trades |-> 0,
     winning_trades |-> 0, losing_trades |-> 0, win_rates_by_coin |-> <<>>]

\* the rate left as a fraction
RateFraction(wins, total) ==
    IF total > 0 THEN FDiv(FromInt(wins), FromInt(total)) ELSE FZero

\* (wins / total) * 100, or 0.0 without a decided trade
Rate(wins, total) ==
    IF total > 0
    THEN FMul(FDiv(FromInt(wins), FromInt(total)), FromInt(100))
    ELSE FZero

\* the loop over pnl_by_coin.items(), as <<winning, losing, total>>
RECURSIVE Totals(_, _)
Totals(stats, coins) ==
    IF coins = {} THEN <<0, 0, 0>>
    ELSE LET c    == CHOOSE x \in coins : TRUE
             rest == Totals(stats, coins \ {c})
             w    == stats[c].winning_trades
             l    == stats[c].losing_trades
         IN  <<rest[1] + w, rest[2] + l, rest[3] + (w + l)>>

WinrateReport(stats) ==
    LET t == Totals(stats, DOMAIN stats)
    IN  [status |-> "ok",
         overall_win_rate |-> Rate(t[1], t[3]),
         total_trades |-> t[3],
         winning_trades |-> t[1],
         losing_trades |-> t[2],
         win_rates_by_coin |->
            [c \in DOMAIN stats |->
                Rate(stats[c].winning_trades,
                     stats[c].winning_trades + stats[c].losing_trades)]]

\* calculate_winrate on an account without trades
WinrateEmpty ==
    /\ pc = "loop"
    /\ n = 0
    /\ report' = ZeroReport
    /\ pc' = "done"
    /\ UNCHANGED <<n, trade, positions>>
    /\ UNCHANGED storeVars

\* calculate_winrate once calculate_pnl_by_coin has returned
Winrate ==
    /\ pc = "returned"
    /\ n > 0
    /\ report' = WinrateReport(positions)
    /\ pc' = "done"
    /\ UNCHANGED <<n, trade, positions>>
    /\ UNCHANGED storeVars

NextLedger ==
    \/ \E t \in TradeInputs : NextTrade(t)
    \/ ProcessFill
    \/ ReturnPositions
    \/ WinrateEmpty
    \/ Winrate

Spec == InitLedger /\ [][NextLedger]_vars

\* ------------------------------------------------------------------------
\* Properties of the ledger
\* ------------------------------------------------------------------------
\* the fill in hand and the PositionState it meets
Px == FieldFloat(trade.px)
Sz == FieldFloat(trade.sz)
Held == Get(trade.coin)

\* the loop body is about to run on a fill with every field in order
Replaying ==
    /\ pc = "body"
    /\ IsNumeric(trade.px) /\ IsNumeric(trade.sz)
    /\ trade.coin \in Coins
    /\ trade.side \in {"B", "A"}

\* a fill with a field missing or not a number
IsMalformed(t) ==
    \/ Falsy(t.coin) \/ Falsy(t.side)
    \/ ~IsNumeric(t.px) \/ ~IsNumeric(t.sz)

\* C1: after every fill (prices and sizes >= 0) each instrument has
\* position >= 0 and total_cost >= 0, and total_cost = 0 when position = 0.
C1_PositionInvariant ==
    \A c \in DOMAIN positions :
        /\ FSign(positions[c].position) >= 0
        /\ FSign(positions[c].total_cost) >= 0
        /\ (FSign(positions[c].position) = 0 => FSign(positions[c].total_cost) = 0)

\* C2: a fill with a missing or non-numeric price, size, side or instrument
\* changes no PositionState and does not abort the batch.
C2_MalformedSkipped ==
    [][(pc = "body" /\ IsMalformed(trade))
          => (pc' = "loop" /\ positions' = positions)]_vars

\* C3: a sell of more than the (positive) position realises
\* (p - total_cost/position) * position and leaves position and total_cost 0;
\* buy 10 @ 10 then sell 15 @ 12 realises 20.
C3_Oversell ==
    [][(Replaying /\ trade.side = "A"
          /\ FSign(Held.position) > 0 /\ FLt(Held.position, Sz))
       => LET after == positions'[trade.coin]
          IN  /\ after.realized_pnl =
                    FAdd(Held.realized_pnl,
                         FMul(FSub(Px, FDiv(Held.total_cost, Held.position)),
                              Held.position))
              /\ after.position = FZero
              /\ after.total_cost = FZero
              /\ (/\ Held.position = FromInt(10)
                  /\ Held.total_cost = FromInt(100)
                  /\ Held.realized_pnl = FZero
                  /\ trade.px = "12" /\ trade.sz = "15")
                 => after.realized_pnl = FromInt(20)]_vars

\* buy 10 @ 10, sell 15 @ 12 has been replayed
C3_Witness ==
    /\ pc = "loop" /\ n = 2
    /\ trade = [coin |-> "BTC", side |-> "A", px |-> "12", sz |-> "15"]
    /\ "BTC" \in DOMAIN positions
    /\ positions["BTC"].trades_count = 2
    /\ positions["BTC"].realized_pnl = FromInt(20)
    /\ positions["BTC"].position = FZero
    /\ positions["BTC"].total_cost = FZero

\* C4: from an empty PositionState, buy S at P1 then sell S at P2 # P1 leaves
\* realized_pnl = (P2 - P1) * S, position = 0 and total_cost = 0.
C4_RoundTrip ==
    [][\A p1 \in Prices :
        (/\ Replaying /\ trade.side = "A"
         /\ trade.px # p1
         /\ FSign(Sz) > 0
         /\ Held = [position |-> Sz,
                     total_cost |-> FMul(ParseFloat(p1), Sz),
                     realized_pnl |-> FZero, trades_count |-> 1,
                     winning_trades |-> 0, losing_trades |-> 0])
        => LET after == positions'[trade.coin]
           IN  /\ after.realized_pnl = FMul(FSub(Px, ParseFloat(p1)), Sz)
               /\ after.position = FZero
               /\ after.total_cost = FZero]_vars

\* C5: a sell met by a position <= 0 is counted and changes nothing else.
C5_SellWithoutPosition ==
    [][(Replaying /\ trade.side = "A" /\ FSign(Held.position) <= 0)
       => positions'[trade.coin] =
            [Held EXCEPT !.trades_count = Held.trades_count + 1]]_vars

\* a sell was the first fill of its instrument
C5_Witness ==
    /\ pc = "loop"
    /\ trade.side = "A" /\ IsNumeric(trade.px) /\ IsNumeric(trade.sz)
    /\ trade.coin \in DOMAIN positions
    /\ positions[trade.coin] = [NewPosition EXCEPT !.trades_count = 1]

\* C6: a sell matched against a positive position counts one win when
\* (price - avgCost) * min(size, position) > 0, one loss when it is < 0 and
\* neither when it is 0; a buy changes neither counter.
C6_WinLoss ==
    [][Replaying
       => LET after == positions'[trade.coin]
              pnl   == FMul(FSub(Px, FDiv(Held.total_cost, Held.position)),
                            IF FLt(Held.position, Sz) THEN Held.position ELSE Sz)
              won   == IF FSign(pnl) > 0 THEN 1 ELSE 0
              lost  == IF FSign(pnl) < 0 THEN 1 ELSE 0
          IN  /\ (trade.side = "A" /\ FSign(Held.position) > 0)
                 => /\ after.winning_trades = Held.winning_trades + won
                    /\ after.losing_trades = Held.losing_trades + lost
              /\ trade.side = "B"
                 => /\ after.winning_trades = Held.winning_trades
                    /\ after.losing_trades = Held.losing_trades]_vars

\* buy 10 @ 10, then a sell of 5 at the average cost 10: neither counter moved
C6_Witness ==
    /\ pc = "loop"
    /\ trade.side = "A" /\ trade.px = "10" /\ trade.sz = "5"
    /\ trade.coin \in DOMAIN positions
    /\ positions[trade.coin].trades_count = 2
    /\ positions[trade.coin].position = FromInt(5)
    /\ positions[trade.coin].total_cost = FromInt(50)
    /\ positions[trade.coin].winning_trades = 0
    /\ positions[trade.coin].losing_trades = 0

\* C7: per instrument the win rate is winCount / (winCount + lossCount) * 100,
\* or 0 without a decided trade; the overall rate is the same over the sums
\* of all instruments; an empty fill sequence gives the all-zero report.
C7_WinRate ==
    report.status = "ok" =>
        LET W(c) == IF c \in DOMAIN positions THEN positions[c].winning_trades ELSE 0
            L(c) == IF c \in DOMAIN positions THEN positions[c].losing_trades ELSE 0
            w == W("BTC") + W("ETH")
            l == L("BTC") + L("ETH")
            Pct(a, b) ==
                IF a + b = 0 THEN FZero
                ELSE FMul(FDiv(FromInt(a), FromInt(a + b)), FromInt(100))
        IN  /\ DOMAIN report.win_rates_by_coin = DOMAIN positions
            /\ \A c \in DOMAIN positions :
                  report.win_rates_by_coin[c] = Pct(W(c), L(c))
            /\ report.overall_win_rate = Pct(w, l)
            /\ report.winning_trades = w
            /\ report.losing_trades = l
            /\ report.total_trades = w + l
            /\ n = 0 =>
                 /\ report.overall_win_rate = FZero
                 /\ report.total_trades = 0
                 /\ report.winning_trades = 0
                 /\ report.losing_trades = 0
                 /\ report.win_rates_by_coin = <<>>

\* one win and one loss reported as 50 percent
C7_Witness ==
    /\ report.status = "ok"
    /\ n = 3
    /\ report.winning_trades = 1
    /\ report.losing_trades = 1
    /\ report.total_trades = 2
    /\ report.overall_win_rate = FromInt(50)

\* ------------------------------------------------------------------------
\* Store and whale signal: save_trades, save_transfers and
\* analyze_whale_activity (main.py).  Timestamps are whole hours; a row
\* keeps the hour count and the queries compare milliseconds.  The feed's
\* prices, sizes and amounts are whole numbers, so every product and sum of
\* the detector is exact whatever the order of the rows.
\* ------------------------------------------------------------------------
MaxBatch == 2

Users == {"0xA", "0xB"}

\* time.time() at the moment of the analysis, in hours
Nows == {800, 801}

\* userFills as the exchange reports them
FillFeed ==
    << [tid |-> 0, coin |-> "BTC", side |-> "B", px |-> "60000", sz |-> "12", time |-> 790],
       [tid |-> 1, coin |-> "BTC", side |-> "B", px |-> "60000", sz |-> "10", time |-> 790],
       [tid |-> 2, coin |-> "BTC", side |-> "A", px |-> "65000", sz |-> "2", time |-> 790],
       [tid |-> 3, coin |-> "BTC", side |-> "B", px |-> "60000", sz |-> "12", time |-> 776],
       [tid |-> 4, coin |-> "BTC", side |-> "B", px |-> "50000", sz |-> "10", time |-> 790],
       [tid |-> 5, coin |-> "BTC", side |-> "A", px |-> "50000", sz |-> "10", time |-> 790] >>

\* userNonFundingLedgerUpdates as the exchange reports them
UpdateFeed ==
    << [hash |-> "h1", usdc |-> "150000", time |-> 790],
       [hash |-> "h2", usdc |-> "-100000", time |-> 80],
       [hash |-> "h3", usdc |-> "99999", time |-> 790],
       [hash |-> "h4", usdc |-> "0", time |-> 790] >>

\* the lists a poll hands over: up to MaxBatch records, in feed order
Batches(feed) ==
    { [i \in 1..Len(idx) |-> feed[idx[i]]] :
        idx \in { t \in UNION { [1..k -> 1..Len(feed)] : k \in 1..MaxBatch } :
                    \A i \in 1..(Len(t) - 1) : t[i] < t[i + 1] } }

\* INSERT OR REPLACE: a stored tid overwritten by the later fill
RECURSIVE InsertOrReplaceTrades(_, _, _, _)
InsertOrReplaceTrades(tbl, user, batch, i) ==
    IF i > Len(batch) THEN tbl
    ELSE IF batch[i].tid = 0
    THEN InsertOrReplaceTrades(tbl, user, batch, i + 1)
    ELSE InsertOrReplaceTrades(
            [k \in DOMAIN tbl \cup {batch[i].tid} |->
                IF k = batch[i].tid
                THEN [user_address |-> user, coin |-> batch[i].coin,
                      side |-> batch[i].side, px |-> batch[i].px,
                      sz |-> batch[i].sz, time |-> batch[i].time]
                ELSE tbl[k]],
            user, batch, i + 1)

\* INSERT INTO trades, IntegrityError on a stored tid swallowed
RECURSIVE InsertTrades(_, _, _, _)
InsertTrades(tbl, user, batch, i) ==
    IF i > Len(batch) THEN tbl
    ELSE LET t == batch[i]
         IN  IF t.tid = 0 \/ t.tid \in DOMAIN tbl
             THEN InsertTrades(tbl, user, batch, i + 1)
             ELSE InsertTrades(
                    [k \in DOMAIN tbl \cup {t.tid} |->
                        IF k = t.tid
                        THEN [user_address |-> user, coin |-> t.coin, side |-> t.side,
                              px |-> t.px, sz |-> t.sz, time |-> t.time]
                        ELSE tbl[k]],
                    user, batch, i + 1)

\* amount_usdc.replace('-', '')
DisplayAmount(str) == IF str = "-100000" THEN "100000" ELSE str

RECURSIVE InsertTransfers(_, _, _, _)
InsertTransfers(tbl, user, batch, i) ==
    IF i > Len(batch) THEN tbl
    ELSE LET u   == batch[i]
             amt == ParseFloat(u.usdc)
         IN  IF FSign(amt) = 0 \/ u.hash \in DOMAIN tbl
             THEN InsertTransfers(tbl, user, batch, i + 1)
             ELSE InsertTransfers(
                    [k \in DOMAIN tbl \cup {u.hash} |->
                        IF k = u.hash
                        THEN [user_address |-> user,
                              type |-> IF FSign(amt) > 0 THEN "deposit" ELSE "withdraw",
                              amount |-> DisplayAmount(u.usdc),
                              token |-> "USDC", time |-> u.time]
                        ELSE tbl[k]],
                    user, batch, i + 1)

WHALE_DEFINITION_DAYS == 30
ANALYSIS_PERIOD_HOURS == 24
WHALE_TRANSFER_THRESHOLD_USDC == FromInt(100000)
NET_VOLUME_BUY_THRESHOLD_USDC == FromInt(500000)
NET_VOLUME_SELL_THRESHOLD_USDC == FromInt(0 - 500000)

\* an hour count as milliseconds
HourMs == FromInt(3600000)
Ms(h) == FMul(FromInt(h), HourMs)

\* WHALE_DEFINITION_DAYS * 86400 * 1000 and ANALYSIS_PERIOD_HOURS * 3600 * 1000
WhaleWindowMs ==
    FMul(FMul(FromInt(WHALE_DEFINITION_DAYS), FromInt(86400)), FromInt(1000))
AnalysisWindowMs == FMul(FromInt(ANALYSIS_PERIOD_HOURS * 3600), FromInt(1000))

\* Python's round(x, 2): the decimal with two places nearest to x, ties to
\* even, read back as a float
Round2Cents(q, half) ==
    IF half > 0 \/ (half = 0 /\ BIsOdd(q)) THEN BAdd(q, <<1>>) ELSE q

Round2Cut(s, num, k, q) ==
    FDiv(FRound(s, Round2Cents(q, BCmp(BSub(num, BShl(q, k)), BShl(<<1>>, k - 1))),
                0, FALSE),
         FromInt(100))

Round2Scaled(s, num, k) == Round2Cut(s, num, k, BShr(num, k))

Round2(x) ==
    IF x.m = <<>> \/ x.e >= 0 THEN x
    ELSE Round2Scaled(x.s, BMulSmall(x.m, 100), 0 - x.e)

\* the threshold read as exclusive
WhaleAddressesAbove(now) ==
    LET whale_start == FSub(Ms(now), WhaleWindowMs)
    IN  { transfers_tbl[h].user_address :
            h \in { k \in DOMAIN transfers_tbl :
                      /\ transfers_tbl[k].token = "USDC"
                      /\ FGt(ParseFloat(transfers_tbl[k].amount),
                             WHALE_TRANSFER_THRESHOLD_USDC)
                      /\ FGe(Ms(transfers_tbl[k].time), whale_start) } }

\* the lookback window left out
WhaleAddressesAnyTime(now) ==
    { transfers_tbl[h].user_address :
        h \in { k \in DOMAIN transfers_tbl :
                  /\ transfers_tbl[k].token = "USDC"
                  /\ FGe(ParseFloat(transfers_tbl[k].amount),
                         WHALE_TRANSFER_THRESHOLD_USDC) } }

\* SELECT DISTINCT user_address FROM transfers WHERE ...
WhaleAddresses(now) ==
    LET whale_start == FSub(Ms(now), WhaleWindowMs)
    IN  { transfers_tbl[h].user_address :
            h \in { k \in DOMAIN transfers_tbl :
                      /\ transfers_tbl[k].token = "USDC"
                      /\ FGe(ParseFloat(transfers_tbl[k].amount),
                             WHALE_TRANSFER_THRESHOLD_USDC)
                      /\ FGe(Ms(transfers_tbl[k].time), whale_start) } }

\* SELECT side, price, size FROM trades WHERE user_address IN (...) AND time >= ?
RecentTrades(now, whales) ==
    LET analysis_start == FSub(Ms(now), AnalysisWindowMs)
    IN  { k \in DOMAIN trades_tbl :
            /\ trades_tbl[k].user_address \in whales
            /\ FGe(Ms(trades_tbl[k].time), analysis_start) }

\* sum(price * size for ... if side == wanted), rows in tid order
RECURSIVE Volume(_, _)
Volume(rows, wanted) ==
    IF rows = {} THEN FZero
    ELSE LET k == CHOOSE x \in rows : \A y \in rows : y <= x
             rest == Volume(rows \ {k}, wanted)
         IN  IF trades_tbl[k].side = wanted
             THEN FAdd(rest, FMul(ParseFloat(trades_tbl[k].px),
                                  ParseFloat(trades_tbl[k].sz)))
             ELSE rest

\* a strict threshold read as inclusive
SuggestionInclusive(net_volume) ==
    IF FGe(net_volume, NET_VOLUME_BUY_THRESHOLD_USDC) THEN "BUY"
    ELSE IF FGe(NET_VOLUME_SELL_THRESHOLD_USDC, net_volume) THEN "SELL"
    ELSE "HOLD"

Suggestion(net_volume) ==
    IF FGt(net_volume, NET_VOLUME_BUY_THRESHOLD_USDC) THEN "BUY"
    ELSE IF FLt(net_volume, NET_VOLUME_SELL_THRESHOLD_USDC) THEN "SELL"
    ELSE "HOLD"

NoWhales(now) ==
    [branch |-> "no_whales", now |-> now, suggestion |-> "HOLD",
     identified_whales_count |-> 0, identified_whales |-> {},
     net_volume_usdc |-> FZero, buy_volume_usdc |-> FZero,
     sell_volume_usdc |-> FZero]

Signal(now, whales, buy_volume, sell_volume, net_volume) ==
    [branch |-> "computed", now |-> now,
     identified_whales_count |-> Cardinality(whales),
     identified_whales |-> whales,
     buy_volume |-> buy_volume, sell_volume |-> sell_volume,
     net_volume |-> net_volume,
     suggestion |-> Suggestion(net_volume),
     net_volume_usdc |-> Round2(net_volume),
     buy_volume_usdc |-> Round2(buy_volume),
     sell_volume_usdc |-> Round2(sell_volume)]

Volumes(now, whales, buy_volume, sell_volume) ==
    Signal(now, whales, buy_volume, sell_volume, FSub(buy_volume, sell_volume))

Recent(now, whales, recent_trades) ==
    Volumes(now, whales, Volume(recent_trades, "B"), Volume(recent_trades, "A"))

Computed(now, whales) == Recent(now, whales, RecentTrades(now, whales))

Analysis(now, whale_addresses) ==
    IF whale_addresses = {} THEN NoWhales(now) ELSE Computed(now, whale_addresses)

InitStore ==
    /\ trades_tbl = <<>>
    /\ transfers_tbl = <<>>
    /\ signal = NoSignal
    /\ pc = "idle"
    /\ n = 0
    /\ trade = NoTrade
    /\ positions = <<>>
    /\ report = NoReport

save_trades(user_address, trades) ==
    /\ signal = NoSignal
    /\ trades_tbl' = InsertTrades(trades_tbl, user_address, trades, 1)
    /\ UNCHANGED <<transfers_tbl, signal>>
    /\ UNCHANGED ledgerVars

save_transfers(user_address, updates) ==
    /\ signal = NoSignal
    /\ transfers_tbl' = InsertTransfers(transfers_tbl, user_address, updates, 1)
    /\ UNCHANGED <<trades_tbl, signal>>
    /\ UNCHANGED ledgerVars

\* The analysis reads the tables and writes none, so a behaviour is taken
\* up to its first analysis: every store the polls can build is analysed.
analyze_whale_activity(now) ==
    /\ signal = NoSignal
    /\ signal' = Analysis(now, WhaleAddresses(now))
    /\ UNCHANGED <<trades_tbl, transfers_tbl>>
    /\ UNCHANGED ledgerVars

FillBatches == Batches(FillFeed)
UpdateBatches == Batches(UpdateFeed)

NextStore ==
    \/ \E u \in Users, b \in FillBatches : save_trades(u, b)
    \/ \E u \in Users, b \in UpdateBatches : save_transfers(u, b)
    \/ \E t \in Nows : analyze_whale_activity(t)

SpecStore == InitStore /\ [][NextStore]_vars

\* ------------------------------------------------------------------------
\* Properties of the whale signal, stated over whole numbers: hours for the
\* windows, USDC for amounts and volumes.
\* ------------------------------------------------------------------------
Units(str) == Tenths(str) \div 10

\* a transfer of at least 100,000 USDC no older than 30 days at the analysis
Qualifies(row, now) ==
    /\ row.token = "USDC"
    /\ Units(row.amount) >= 100000
    /\ row.time >= now - 30 * 24

IsWhale(a, now) ==
    \E h \in DOMAIN transfers_tbl :
        transfers_tbl[h].user_address = a /\ Qualifies(transfers_tbl[h], now)

\* the fills that count: of a whale, no older than 24 hours
Counting(now) ==
    { k \in DOMAIN trades_tbl :
        /\ trades_tbl[k].time >= now - 24
        /\ IsWhale(trades_tbl[k].user_address, now) }

RECURSIVE SumUnits(_, _)
SumUnits(rows, wanted) ==
    IF rows = {} THEN 0
    ELSE LET k == CHOOSE x \in rows : TRUE
             v == IF trades_tbl[k].side = wanted
                  THEN Units(trades_tbl[k].px) * Units(trades_tbl[k].sz)
                  ELSE 0
         IN  v + SumUnits(rows \ {k}, wanted)

BuyUnits == SumUnits(Counting(signal.now), "B")
SellUnits == SumUnits(Counting(signal.now), "A")
NetUnits == BuyUnits - SellUnits

\* C8: BUY iff netVolume > 500,000, SELL iff netVolume < -500,000, HOLD
\* otherwise, both thresholds strict; net 470,000 gives HOLD, 590,000 BUY.
C8_Decision ==
    signal.branch # "none" =>
        /\ signal.suggestion = "BUY" <=> NetUnits > 500000
        /\ signal.suggestion = "SELL" <=> NetUnits < 0 - 500000
        /\ signal.suggestion = "HOLD" <=> (NetUnits <= 500000 /\ NetUnits >= 0 - 500000)
        /\ signal.branch = "computed" =>
             /\ signal.net_volume = FromInt(470000) => signal.suggestion = "HOLD"
             /\ signal.net_volume = FromInt(590000) => signal.suggestion = "BUY"
             /\ signal.net_volume = FromInt(500000) => signal.suggestion = "HOLD"
             /\ signal.net_volume = FromInt(0 - 500000) => signal.suggestion = "HOLD"

\* a net volume of exactly +500,000 answered HOLD
C8_Witness ==
    /\ signal.branch = "computed"
    /\ signal.net_volume = FromInt(500000)
    /\ signal.suggestion = "HOLD"

\* C9: a fill adds price*size to the buy (side B) or sell (side A) volume
\* iff it is no older than 24 hours and its account has a transfer of at
\* least 100,000 USDC no older than 30 days; net = buy - sell.
C9_Volumes ==
    /\ signal.branch = "computed" =>
         /\ signal.buy_volume = FromInt(BuyUnits)
         /\ signal.sell_volume = FromInt(SellUnits)
         /\ signal.net_volume = FromInt(BuyUnits - SellUnits)
         /\ signal.identified_whales = { a \in Users : IsWhale(a, signal.now) }
    /\ signal.branch = "no_whales" =>
         /\ Counting(signal.now) = {}
         /\ signal.buy_volume_usdc = FromInt(BuyUnits)
         /\ signal.sell_volume_usdc = FromInt(SellUnits)
         /\ signal.net_volume_usdc = FromInt(BuyUnits - SellUnits)

\* a whale by a withdrawal of exactly 100,000 at the edge of the 30 days,
\* whose fill at the edge of the 24 hours counts, next to a fill of an
\* account that is no whale
C9_Witness ==
    /\ signal.branch = "computed"
    /\ signal.now = 800
    /\ DOMAIN transfers_tbl = {"h2", "h3"}
    /\ transfers_tbl["h2"].user_address = "0xA"
    /\ transfers_tbl["h3"].user_address = "0xB"
    /\ DOMAIN trades_tbl = {1, 2, 3}
    /\ trades_tbl[3].user_address = "0xA"
    /\ trades_tbl[2].user_address = "0xA"
    /\ trades_tbl[1].user_address = "0xB"
    /\ signal.buy_volume = FromInt(720000)
    /\ signal.sell_volume = FromInt(130000)
    /\ signal.net_volume = FromInt(590000)

\* C10: without a transfer that meets the whale criteria the answer is HOLD
\* with no whales and zero volumes, whatever fills are stored.
C10_NoWhales ==
    (/\ signal.branch # "none"
     /\ ~\E h \in DOMAIN transfers_tbl : Qualifies(transfers_tbl[h], signal.now))
    => /\ signal.branch = "no_whales"
       /\ signal.suggestion = "HOLD"
       /\ signal.identified_whales_count = 0
       /\ signal.identified_whales = {}
       /\ signal.net_volume_usdc = FZero
       /\ signal.buy_volume_usdc = FZero
       /\ signal.sell_volume_usdc = FZero

\* transfers too small or too old, and a recent buy of 720,000 stored
C10_Witness ==
    /\ signal.branch = "no_whales"
    /\ signal.now = 801
    /\ DOMAIN transfers_tbl = {"h2", "h3"}
    /\ 0 \in DOMAIN trades_tbl \/ 4 \in DOMAIN trades_tbl
    /\ 1 \in DOMAIN trades_tbl
    /\ signal.suggestion = "HOLD"

\* ------------------------------------------------------------------------
\* Ingestion into the trades table
\* ------------------------------------------------------------------------
\* every stored row is still there, field for field, in the later table
Kept(before, after) ==
    \A k \in DOMAIN before : k \in DOMAIN after /\ after[k] = before[k]

\* the rows of the table as (tid, row) pairs, as SELECT * returns them
Rows(tbl) == { <<k, tbl[k]>> : k \in DOMAIN tbl }

\* the table once user has handed the batch to save_trades
Ingested(user, batch) == InsertTrades(trades_tbl, user, batch, 1)

\* C11: whatever save_trades calls built the table, it holds one row per
\* tid, and one more call, by any account with any batch, leaves every
\* stored row as it is, user_address included (first write wins); handing
\* the same batch over again, by the same or another account, changes
\* nothing.
C11_FirstWriteWins ==
    /\ \A p, q \in Rows(trades_tbl) : p[1] = q[1] => p = q
    /\ \A user \in Users, batch \in FillBatches :
          /\ Kept(trades_tbl, Ingested(user, batch))
          /\ \A p, q \in Rows(Ingested(user, batch)) : p[1] = q[1] => p = q
          /\ \A again \in Users :
                InsertTrades(Ingested(user, batch), again, batch, 1)
                    = Ingested(user, batch)

\* tid 1 came in under 0xA and tid 2 under 0xB; 0xB handing over both
\* fills is ignored for both
C11_Witness ==
    /\ signal = NoSignal
    /\ 1 \in DOMAIN trades_tbl /\ trades_tbl[1].user_address = "0xA"
    /\ 2 \in DOMAIN trades_tbl /\ trades_tbl[2].user_address = "0xB"
    /\ <<FillFeed[2], FillFeed[3]>> \in FillBatches
    /\ Ingested("0xB", <<FillFeed[2], FillFeed[3]>>) = trades_tbl
    /\ Ingested("0xA", <<FillFeed[2], FillFeed[3]>>) = trades_tbl

====
